---- MODULE Spec2Model ----
(***************************************************************************)
(* ERC-5564 / ERC-6538 stealth-address walkthrough: registry, announcer,   *)
(* sender-side generateStealthAddress and recipient-side scanAndRecover.   *)
(*                                                                         *)
(* The curve is y^2 = x^3 + 7 (the secp256k1 equation) over a small prime  *)
(* field whose group has prime order, so that every library call is        *)
(* computed as the library computes it (affine addition, scalar            *)
(* multiplication, compressed encoding and decoding) while the state space *)
(* stays finite.  Widths are scaled with it: a 32-byte value is a 4-bit    *)
(* value, its first byte the top two bits, its low 20 bytes the low three  *)
(* bits, a two-digit hex byte a two-digit binary number.                   *)
(***************************************************************************)
EXTENDS Integers, Sequences, FiniteSets, TLC

\* ------------------------------------------------------------ constants

\* const SCHEME_ID = 1
SCHEME_ID == 1

\* const CURVE_ORDER = BigInt("0xFFFF...4141"), scaled: the order of the group
CURVE_ORDER == 7

\* the field prime of the curve behind '@noble/secp256k1', scaled
FIELD_P == 13

\* the curve's constant term: y^2 = x^3 + CURVE_B
CURVE_B == 7

\* new Uint8Array(32): the number of values a 32-byte buffer can hold, scaled
KEY_SPACE == 16

\* the number of values of one byte, scaled (a view tag is one byte)
BYTE_SPACE == 4

\* the number of values of 20 bytes, scaled (address = last 40 hex digits)
ADDR_SPACE == 8

\* toString(16) / parseInt(_, 16): the radix of the metadata digits, scaled so
\* that a byte is exactly two digits
HEX_RADIX == 2

\* a scheme id other than SCHEME_ID, carried by announcements of other schemes
OTHER_SCHEME == 2

\* the bytes of a compressed public key (33: prefix and x), scaled
PUBKEY_BYTES == 2

\* ----------------------------------------------------------- bounds

\* the longest AnnouncementLog explored
MaxLog == 1

\* the private keys 1..MaxConcKey are the ones drawn where calls run concurrently
MaxConcKey == 3

\* ------------------------------------------------ field and curve arithmetic

Mod(a, m) == a % m

\* modular inverse in the field (a # 0)
FieldInv(a) == CHOOSE i \in 1..(FIELD_P - 1) : Mod(a * i, FIELD_P) = 1

\* Point.ZERO: the identity, held as (0, 0)
ZERO == [x |-> 0, y |-> 0]

OnCurve(x, y) == Mod(y * y, FIELD_P) = Mod(x * x * x + CURVE_B, FIELD_P)

\* the affine points of the curve (without the identity)
CurvePoints == {pt \in [x : 0..(FIELD_P - 1), y : 0..(FIELD_P - 1)] : OnCurve(pt.x, pt.y)}

\* the base point G
BASE == [x |-> 7, y |-> 5]

\* Point.double
PointDouble(P) ==
    IF P = ZERO \/ P.y = 0 THEN ZERO
    ELSE LET lam == Mod(3 * P.x * P.x * FieldInv(Mod(2 * P.y, FIELD_P)), FIELD_P)
             x3  == Mod(lam * lam - 2 * P.x, FIELD_P)
             y3  == Mod(lam * (P.x - x3) - P.y, FIELD_P)
         IN  [x |-> x3, y |-> y3]

\* Point.add
PointAdd(P, Q) ==
    IF P = ZERO THEN Q
    ELSE IF Q = ZERO THEN P
    ELSE IF P.x = Q.x
         THEN IF P.y = Q.y THEN PointDouble(P) ELSE ZERO
         ELSE LET lam == Mod((Q.y - P.y) * FieldInv(Mod(Q.x - P.x, FIELD_P)), FIELD_P)
                  x3  == Mod(lam * lam - P.x - Q.x, FIELD_P)
                  y3  == Mod(lam * (P.x - x3) - P.y, FIELD_P)
              IN  [x |-> x3, y |-> y3]

\* Point.multiply: k times P
RECURSIVE ScalarMul(_, _)
ScalarMul(k, P) == IF k = 0 THEN ZERO ELSE PointAdd(P, ScalarMul(k - 1, P))

\* ------------------------------------------------------------- encodings

\* a private key or a digest is held as the integer its 32 bytes spell
\* (BigInt(hex)); a compressed public key as its bytes <<prefix, x>>

\* Point.toHex(true) / toRawBytes(true): parity prefix 02 or 03, then x
Compress(P) == <<2 + (P.y % 2), P.x>>

\* Point.toHex(false): prefix 04, then x, then y
Uncompressed(P) == <<4, P.x, P.y>>

\* Point.fromHex on compressed bytes succeeds exactly on these
IsPointHex(bytes) ==
    /\ Len(bytes) = 2
    /\ bytes[1] \in {2, 3}
    /\ \E pt \in CurvePoints : Compress(pt) = bytes

\* Point.fromHex: the point with this x whose y has the parity of the prefix
FromHex(bytes) == CHOOSE pt \in CurvePoints : Compress(pt) = bytes

\* the library accepts a private key only if 0 < key < curve order
ValidPrivateKey(k) == 0 < k /\ k < CURVE_ORDER

\* keccak256 over a byte sequence: a fixed mixing function into 32 bytes
RECURSIVE Absorb(_, _)
Absorb(h, bytes) ==
    IF bytes = <<>> THEN h ELSE Absorb((h * 14 + Head(bytes)) % 41, Tail(bytes))

keccak256(bytes) == Absorb(2, bytes) % KEY_SPACE

\* hexToBytes(digest)[0]: the first byte of a 32-byte digest
FirstByte(digest) == digest \div (KEY_SPACE \div BYTE_SPACE)

\* ------------------------------------------------------- helper functions

\* function getPublicKey(privateKey): secp256k1.getPublicKey(key, true)
getPublicKey(privateKey) == Compress(ScalarMul(privateKey, BASE))

\* a shared secret that never uses the peer's key: key * G
computeSharedSecret_ownKeyOnly(privateKey, publicKey) ==
    Compress(ScalarMul(privateKey, BASE))

\* function computeSharedSecret(privateKey, publicKey):
\* secp256k1.getSharedSecret(key, pub, true), the compressed point key * pub
computeSharedSecret(privateKey, publicKey) ==
    Compress(ScalarMul(privateKey, FromHex(publicKey)))

\* generatePrivateKey(): bytesToHex(crypto.getRandomValues(new Uint8Array(32))),
\* the values a call can return
generatePrivateKey == 0..(KEY_SPACE - 1)

\* a sum that is never reduced
ScalarAddMod_unreduced(a, b) == a + b

\* (d_spending + s_scalar) % CURVE_ORDER
ScalarAddMod(a, b) == (a + b) % CURVE_ORDER

\* an address: 20 bytes of hex digits, and whether its letters carry the
\* EIP-55 checksum casing
Address(digits, checksum) == [digits |-> digits, checksum |-> checksum]

NoAddress == Address(0 - 1, FALSE)

\* `0x${keccak256(pubKeyBytes).slice(-40)}` over the uncompressed key without
\* its 04 prefix: lower-case hex
AddressOfPoint(P) == Address(keccak256(Tail(Uncompressed(P))) % ADDR_SPACE, FALSE)

\* viem privateKeyToAddress: the same digest of the key's public point,
\* returned in checksum casing
privateKeyToAddress(privateKey) ==
    Address(keccak256(Tail(Uncompressed(ScalarMul(privateKey, BASE)))) % ADDR_SPACE, TRUE)

\* String.prototype.toLowerCase on an address
toLowerCase(addr) == Address(addr.digits, FALSE)

\* metadata without the padding: `0x${viewTag.toString(16)}`
MetadataOf_unpadded(viewTag) ==
    IF viewTag < HEX_RADIX THEN <<viewTag>>
    ELSE <<viewTag \div HEX_RADIX, viewTag % HEX_RADIX>>

\* `0x${viewTag.toString(16).padStart(2, '0')}`: the digits after 0x
MetadataOf(viewTag) ==
    IF viewTag < HEX_RADIX THEN <<0, viewTag>>
    ELSE <<viewTag \div HEX_RADIX, viewTag % HEX_RADIX>>

\* a parse of one digit only: parseInt(metadata.slice(2, 3), 16)
ParseViewTag_oneDigit(metadata) == metadata[1]

\* parseInt(metadata.slice(2, 4), 16): the value of the first two digits after
\* 0x, of the only digit when there is one, NaN (held as -1) when there is none
ParseViewTag(metadata) ==
    IF Len(metadata) = 0 THEN 0 - 1
    ELSE IF Len(metadata) = 1 THEN metadata[1]
    ELSE metadata[1] * HEX_RADIX + metadata[2]

\* --------------------------------------------------------- meta-address text

\* a Hex value is held by its bytes; as text it is the prefix 0x followed by
\* the digits of each byte (bytesToHex)
bytesToHex(bytes) == <<"0x">> \o [i \in 1..Len(bytes) |-> ToString(bytes[i])]

\* hex.slice(2): the text without its 0x prefix
Slice2(hex) == Tail(hex)

\* a meta-address string with the viewing key first
metaAddressString_viewingFirst(spendingPubKey, viewingPubKey) ==
    <<"st:eth:", "0x">> \o Slice2(bytesToHex(viewingPubKey))
                        \o Slice2(bytesToHex(spendingPubKey))

\* `st:eth:0x${spendingPubKey.slice(2)}${viewingPubKey.slice(2)}`
metaAddressString(spendingPubKey, viewingPubKey) ==
    <<"st:eth:", "0x">> \o Slice2(bytesToHex(spendingPubKey))
                        \o Slice2(bytesToHex(viewingPubKey))

\* `st:eth:${spendingPubKey}:${viewingPubKey}` of the walkthrough with the
\* registry and no announcer
metaAddressStringRegistryDemo(spendingPubKey, viewingPubKey) ==
    <<"st:eth:">> \o bytesToHex(spendingPubKey) \o <<":">> \o bytesToHex(viewingPubKey)

\* `st:eth:${spendingPubKey}:${viewingPubKey}` of the walkthrough without a
\* registry
metaAddressStringDirect(spendingPubKey, viewingPubKey) ==
    <<"st:eth:">> \o bytesToHex(spendingPubKey) \o <<":">> \o bytesToHex(viewingPubKey)

\* ------------------------------------------------------------------ state

\* the identifiers main registers (the ENS handle and the raw address), and
\* one more string a caller can pass: a name every object inherits
Identifiers == {"alice.eth", "0x1234567890123456789012345678901234567890",
                "constructor"}

\* MockRegistry is an object literal: a name it has no own property for is
\* still found on Object.prototype when it is one of these
ObjectPrototypeMembers == {"constructor"}

NoKeys == [spendingPrivKey |-> 0 - 1, viewingPrivKey |-> 0 - 1,
           spendingPubKey |-> <<>>, viewingPubKey |-> <<>>]

NoMeta == [spendingPubKey |-> <<>>, viewingPubKey |-> <<>>]

NoAnnouncement == [schemeId |-> 0, stealthAddress |-> NoAddress, caller |-> "",
                   ephemeralPubKey |-> <<>>, metadata |-> <<>>]

\* what a call has handed back: nothing yet, the value undefined (a return
\* without a value), or a thrown error
Pending == [type |-> "pending"]

Undefined == [type |-> "undefined"]

Rejected == [type |-> "error"]

\* the frame of a generateStealthAddress call
GenIdle == [pc |-> "idle", recipientIdentifier |-> "", lookup |-> "", error |-> "",
            recipientMetaAddress |-> NoMeta,
            ephemeralPrivKey |-> 0 - 1, ephemeralPubKey |-> <<>>, sharedSecret |-> <<>>,
            hashedSharedSecret |-> 0 - 1, viewTag |-> 0 - 1, p_stealth_point |-> ZERO,
            stealthAddress |-> NoAddress, announcement |-> NoAnnouncement,
            returned |-> NoAnnouncement, console |-> <<>>]

\* the frame of a scanAndRecover call
ScanIdle == [pc |-> "idle", announcement |-> NoAnnouncement, recipientKeys |-> NoKeys,
             viewTagFromMetadata |-> 0 - 1, sharedSecret |-> <<>>,
             hashedSharedSecret |-> 0 - 1, calculatedViewTag |-> 0 - 1,
             d_stealth |-> 0 - 1, derivedAddress |-> NoAddress,
             console |-> "", returned |-> Pending]

\* test script: what its generateStealthAddress returns
NoAnnouncementData == [stealthAddress |-> NoAddress, ephemeralPubKey |-> <<>>,
                       viewTag |-> 0 - 1, ciphertext |-> ""]

\* test script: the frame of a generateStealthAddress call
ScriptGenIdle == [pc |-> "idle", ephemeralPrivKey |-> 0 - 1, sharedSecret |-> <<>>,
                  hashedSharedSecret |-> 0 - 1, p_stealth_point |-> ZERO,
                  returned |-> NoAnnouncementData]

\* test script: the announcement main hands to scanAndRecover
NoScriptAnnouncement == [ephemeralPubKey |-> <<>>, viewTag |-> 0 - 1,
                         stealthAddress |-> NoAddress]

\* test script: the frame of a scanAndRecover call
ScriptScanIdle == [pc |-> "idle", announcement |-> NoScriptAnnouncement,
                   recipientKeys |-> NoKeys, sharedSecret |-> <<>>,
                   hashedSharedSecret |-> 0 - 1, calculatedViewTag |-> 0 - 1,
                   d_stealth |-> 0 - 1, derivedAddress |-> NoAddress,
                   console |-> "", returned |-> Pending]

\* the values of one byte of a compressed key in the model
ByteValues == 0..(FIELD_P - 1)

\* the digits of one byte read back as the byte; no byte when they spell none
IsByteText(text) == \E b \in ByteValues : ToString(b) = text

ParseByte(text) == CHOOSE b \in ByteValues : ToString(b) = text

\* Decode(string) -> MetaAddress: the tag st:eth:, one 0x, then two compressed
\* keys of PUBKEY_BYTES bytes each, both valid curve points; anything else is
\* MalformedMetaAddress
IsWellFormedMetaAddress(str) ==
    /\ Len(str) = 2 + 2 * PUBKEY_BYTES
    /\ str[1] = "st:eth:"
    /\ str[2] = "0x"
    /\ \A i \in 3..Len(str) : IsByteText(str[i])
    /\ IsPointHex([i \in 1..PUBKEY_BYTES |-> ParseByte(str[2 + i])])
    /\ IsPointHex([i \in 1..PUBKEY_BYTES |-> ParseByte(str[2 + PUBKEY_BYTES + i])])

Decode(str) ==
    IF IsWellFormedMetaAddress(str)
    THEN [ok |-> TRUE,
          value |-> [spendingPubKey |->
                        [i \in 1..PUBKEY_BYTES |-> ParseByte(str[2 + i])],
                     viewingPubKey |->
                        [i \in 1..PUBKEY_BYTES |-> ParseByte(str[2 + PUBKEY_BYTES + i])]]]
    ELSE [ok |-> FALSE, value |-> NoMeta]

\* the meta-address strings built so far for the pair of keys at hand, one per
\* version of the walkthrough
NoStrings == [recipientMetaAddress |-> NoMeta, walkthrough |-> <<>>,
              registryDemo |-> <<>>, direct |-> <<>>,
              decodeInput |-> <<>>, decoded |-> [ok |-> FALSE, value |-> NoMeta]]

\* first version of the script: the locals of its generateStealthAddress
\* (sharedPoint .. stealthAddress) and of its scanAndRecover (scan*)
LegacyIdle == [pc |-> "idle", ephemeralPrivKey |-> 0 - 1, ephemeralPubKey |-> <<>>,
               sharedPoint |-> <<>>, sharedSecret |-> 0 - 1, viewTag |-> 0 - 1,
               s_scalar |-> 0 - 1, stealthAddress |-> NoAddress,
               scanPc |-> "idle", scanSharedSecret |-> 0 - 1,
               calculatedViewTag |-> 0 - 1, scan_s_scalar |-> 0 - 1,
               d_stealth |-> 0 - 1, console |-> ""]

\* the frames of a second generateStealthAddress call and a second
\* scanAndRecover call, suspended at an await (none started: both idle)
NoneParked == [gen |-> GenIdle, scan |-> ScanIdle]

VARIABLES
    recipientKeys,     \* main's recipientKeys, NoKeys before they are drawn
    keysThrew,         \* getPublicKey threw while main derived the public keys
    MockRegistry,      \* identifier -> registered keys, NoMeta when absent
    AnnouncementLog,   \* the announcer's log
    gen,               \* the generateStealthAddress call in progress
    scan,              \* the scanAndRecover call in progress
    scriptGen,         \* test script: the synchronous generateStealthAddress call
    scriptScan,        \* test script: the synchronous scanAndRecover call
    meta,              \* the meta-address strings built for one pair of keys
    legacy,            \* first version of the script: its two synchronous calls
    parked             \* the calls suspended at an await while another call runs

vars == <<recipientKeys, keysThrew, MockRegistry, AnnouncementLog, gen, scan,
          scriptGen, scriptScan, meta, legacy, parked>>

\* the state of the walkthrough (registry, announcer, its two calls)
walkVars == <<MockRegistry, AnnouncementLog, gen, scan>>

\* the state of the test script's two calls
scriptVars == <<scriptGen, scriptScan>>

Init ==
    /\ recipientKeys = NoKeys
    /\ keysThrew = FALSE
    /\ MockRegistry = [id \in Identifiers |-> NoMeta]
    /\ AnnouncementLog = <<>>
    /\ gen = GenIdle
    /\ scan = ScanIdle
    /\ scriptGen = ScriptGenIdle
    /\ scriptScan = ScriptScanIdle
    /\ meta = NoStrings
    /\ legacy = LegacyIdle
    /\ parked = NoneParked

\* ------------------------------------------------------------------- main

KeysReady == recipientKeys.viewingPubKey # <<>>

\* main, "1. Setup Recipient Keys": two draws, then getPublicKey of each, which
\* throws on a key that is 0 or >= the curve order (main then ends)
SetupKeys(sp, vp) ==
    /\ recipientKeys = NoKeys /\ ~keysThrew
    /\ IF ValidPrivateKey(sp) /\ ValidPrivateKey(vp)
       THEN /\ recipientKeys' = [spendingPrivKey |-> sp, viewingPrivKey |-> vp,
                                 spendingPubKey |-> getPublicKey(sp),
                                 viewingPubKey |-> getPublicKey(vp)]
            /\ keysThrew' = FALSE
       ELSE /\ recipientKeys' = [NoKeys EXCEPT !.spendingPrivKey = sp,
                                               !.viewingPrivKey = vp]
            /\ keysThrew' = TRUE
    /\ UNCHANGED <<MockRegistry, AnnouncementLog, gen, scan, scriptVars, meta, legacy, parked>>

\* registerKeys(identifier, spendingPubKey, viewingPubKey): the write happens
\* before the call's only await
registerKeys(identifier) ==
    /\ KeysReady
    /\ MockRegistry' = [MockRegistry EXCEPT ![identifier] =
                          [spendingPubKey |-> recipientKeys.spendingPubKey,
                           viewingPubKey |-> recipientKeys.viewingPubKey]]
    /\ UNCHANGED <<recipientKeys, keysThrew, AnnouncementLog, gen, scan, scriptVars, meta, legacy, parked>>

\* -------------------------------------------------- generateStealthAddress

\* the call starts, and lookupKeys starts its sleep; main awaits each call, so
\* no scan is in progress
GenStart(identifier) ==
    /\ gen.pc \in {"idle", "returned", "threw"}
    /\ scan.pc \in {"idle", "done", "threw"}
    /\ Len(AnnouncementLog) < MaxLog
    /\ gen' = [GenIdle EXCEPT !.pc = "lookup", !.recipientIdentifier = identifier]
    /\ UNCHANGED <<recipientKeys, keysThrew, MockRegistry, AnnouncementLog, scan, scriptVars, meta, legacy, parked>>

\* a registry read that sees own properties only, as a Map would
MockRegistryGet_ownOnly(registry, identifier) ==
    IF registry[identifier] # NoMeta
    THEN [kind |-> "own", value |-> registry[identifier]]
    ELSE [kind |-> "undefined", value |-> NoMeta]

\* MockRegistry[identifier]: the own property when one was written, else the
\* member inherited from Object.prototype, else undefined.  MockRegistry is a
\* plain object, so the name "__proto__" is its prototype slot: writing it
\* creates no own property but makes the written object the prototype, and
\* reading it gives the prototype (Object.prototype when none was written);
\* with a written prototype, the names of that object's fields are inherited
\* too (their values are strings).  The slot is modelled as the entry
\* "__proto__" of registries that have one.
MockRegistryGet(registry, identifier) ==
    LET prototype == IF "__proto__" \in DOMAIN registry
                     THEN registry["__proto__"] ELSE NoMeta
    IN  IF identifier = "__proto__"
        THEN IF prototype # NoMeta
             THEN [kind |-> "prototype", value |-> prototype]
             ELSE [kind |-> "inherited", value |-> NoMeta]
        ELSE IF registry[identifier] # NoMeta
        THEN [kind |-> "own", value |-> registry[identifier]]
        ELSE IF identifier \in ObjectPrototypeMembers
        THEN [kind |-> "inherited", value |-> NoMeta]
        ELSE IF prototype # NoMeta /\ identifier \in {"spendingPubKey", "viewingPubKey"}
        THEN [kind |-> "inherited", value |-> NoMeta]
        ELSE [kind |-> "undefined", value |-> NoMeta]

\* lookupKeys reads the registry after its sleep and throws when the value is
\* falsy; an inherited member is truthy and is returned, and the caller then
\* throws a TypeError on its missing spendingPubKey (metaAddressString)
GenLookup ==
    /\ gen.pc = "lookup"
    /\ LET keys == MockRegistryGet(MockRegistry, gen.recipientIdentifier)
       IN  IF keys.kind = "undefined"
           THEN gen' = [gen EXCEPT !.pc = "threw", !.lookup = "threw",
                                   !.error = "Recipient not found in registry!"]
           ELSE IF keys.kind = "inherited"
                THEN gen' = [gen EXCEPT !.pc = "threw", !.lookup = "returned",
                                        !.error = "TypeError"]
                ELSE gen' = [gen EXCEPT !.pc = "ephemeral", !.lookup = "returned",
                                        !.recipientMetaAddress = keys.value]
    /\ UNCHANGED <<recipientKeys, keysThrew, MockRegistry, AnnouncementLog, scan, scriptVars, meta, legacy, parked>>

\* "2. Generate Ephemeral Key Pair": getPublicKey throws on an invalid draw;
\* console holds the private scalars the call has written to standard
\* output ("[Private] Ephemeral Key: ${ephemeralPrivKey}")
GenEphemeral(e) ==
    /\ gen.pc = "ephemeral"
    /\ IF ValidPrivateKey(e)
       THEN gen' = [gen EXCEPT !.pc = "secret", !.ephemeralPrivKey = e,
                               !.ephemeralPubKey = getPublicKey(e),
                               !.console = Append(gen.console, e)]
       ELSE gen' = [gen EXCEPT !.pc = "threw"]
    /\ UNCHANGED <<recipientKeys, keysThrew, MockRegistry, AnnouncementLog, scan, scriptVars, meta, legacy, parked>>

\* "3. Compute Shared Secret"
\* a step 3 that reads the viewing key from the registry again
GenSharedSecret_rereadsRegistry ==
    /\ gen.pc = "secret"
    /\ IF IsPointHex(MockRegistry[gen.recipientIdentifier].viewingPubKey)
       THEN gen' = [gen EXCEPT !.pc = "tag",
                      !.sharedSecret = computeSharedSecret(gen.ephemeralPrivKey,
                                          MockRegistry[gen.recipientIdentifier].viewingPubKey)]
       ELSE gen' = [gen EXCEPT !.pc = "threw"]
    /\ UNCHANGED <<recipientKeys, keysThrew, MockRegistry, AnnouncementLog, scan, scriptVars, meta, legacy, parked>>

GenSharedSecret ==
    /\ gen.pc = "secret"
    /\ IF IsPointHex(gen.recipientMetaAddress.viewingPubKey)
       THEN gen' = [gen EXCEPT !.pc = "tag",
                      !.sharedSecret = computeSharedSecret(gen.ephemeralPrivKey,
                                          gen.recipientMetaAddress.viewingPubKey)]
       ELSE gen' = [gen EXCEPT !.pc = "threw"]
    /\ UNCHANGED <<recipientKeys, keysThrew, MockRegistry, AnnouncementLog, scan, scriptVars, meta, legacy, parked>>

\* "4. Compute View Tag"
GenViewTag ==
    /\ gen.pc = "tag"
    /\ LET hashedSharedSecret == keccak256(gen.sharedSecret)
       IN  gen' = [gen EXCEPT !.pc = "derive",
                      !.hashedSharedSecret = hashedSharedSecret,
                      !.viewTag = FirstByte(hashedSharedSecret)]
    /\ UNCHANGED <<recipientKeys, keysThrew, MockRegistry, AnnouncementLog, scan, scriptVars, meta, legacy, parked>>

\* a sender that multiplies the spending key by s instead of adding s * G
StealthPoint_multiplied(spendingPubKey, s_scalar) ==
    ScalarMul(s_scalar, FromHex(spendingPubKey))

\* the point the sender derives: P_spending + s * G
StealthPoint(spendingPubKey, s_scalar) ==
    PointAdd(FromHex(spendingPubKey), FromHex(getPublicKey(s_scalar)))

\* a generator that announces what it has so far before it derives the point
GenDerive_announcesFirst ==
    /\ gen.pc = "derive"
    /\ AnnouncementLog' = Append(AnnouncementLog,
                                 [schemeId |-> SCHEME_ID,
                                  stealthAddress |-> gen.stealthAddress,
                                  caller |-> "0x0000000000000000000000000000000000000001",
                                  ephemeralPubKey |-> gen.ephemeralPubKey,
                                  metadata |-> MetadataOf(gen.viewTag)])
    /\ IF /\ ValidPrivateKey(gen.hashedSharedSecret)
          /\ IsPointHex(gen.recipientMetaAddress.spendingPubKey)
       THEN gen' = [gen EXCEPT !.pc = "address",
                      !.p_stealth_point =
                         PointAdd(FromHex(gen.recipientMetaAddress.spendingPubKey),
                                  FromHex(getPublicKey(gen.hashedSharedSecret)))]
       ELSE gen' = [gen EXCEPT !.pc = "threw"]
    /\ UNCHANGED <<recipientKeys, keysThrew, MockRegistry, scan, scriptVars, meta, legacy, parked>>

\* "5. Derive Stealth Public Key": getPublicKey(s_scalar) throws when the
\* digest is 0 or >= the curve order.  When the sum is the identity, what
\* p_stealth_point.toHex does depends on the release of the library: some
\* return the encoding of (0, 0), some throw.
GenDerive ==
    /\ gen.pc = "derive"
    /\ \E toHexThrowsOnZero \in BOOLEAN :
         IF /\ ValidPrivateKey(gen.hashedSharedSecret)
            /\ IsPointHex(gen.recipientMetaAddress.spendingPubKey)
         THEN LET sum == StealthPoint(gen.recipientMetaAddress.spendingPubKey,
                                      gen.hashedSharedSecret)
              IN  IF sum = ZERO /\ toHexThrowsOnZero
                  THEN gen' = [gen EXCEPT !.pc = "threw"]
                  ELSE gen' = [gen EXCEPT !.pc = "address", !.p_stealth_point = sum]
         ELSE gen' = [gen EXCEPT !.pc = "threw"]
    /\ UNCHANGED <<recipientKeys, keysThrew, MockRegistry, AnnouncementLog, scan, scriptVars, meta, legacy, parked>>

\* "6. Convert to Ethereum Address"
GenAddress ==
    /\ gen.pc = "address"
    /\ gen' = [gen EXCEPT !.pc = "emit",
                 !.stealthAddress = AddressOfPoint(gen.p_stealth_point)]
    /\ UNCHANGED <<recipientKeys, keysThrew, MockRegistry, AnnouncementLog, scan, scriptVars, meta, legacy, parked>>

\* the announcement generateStealthAddress builds
BuildAnnouncement(stealthAddress, ephemeralPubKey, viewTag) ==
    [schemeId |-> SCHEME_ID,
     stealthAddress |-> stealthAddress,
     caller |-> "0x0000000000000000000000000000000000000001",
     ephemeralPubKey |-> ephemeralPubKey,
     metadata |-> MetadataOf(viewTag)]

\* "7. Emit Announcement": emitAnnouncement pushes, then sleeps
\* an emitAnnouncement that puts the announcement at the head of the log
GenEmit_unshifts ==
    /\ gen.pc = "emit"
    /\ LET announcement == BuildAnnouncement(gen.stealthAddress, gen.ephemeralPubKey,
                                             gen.viewTag)
       IN  /\ AnnouncementLog' = <<announcement>> \o AnnouncementLog
           /\ gen' = [gen EXCEPT !.pc = "emitted", !.announcement = announcement]
    /\ UNCHANGED <<recipientKeys, keysThrew, MockRegistry, scan, scriptVars, meta, legacy, parked>>

GenEmit ==
    /\ gen.pc = "emit"
    /\ LET announcement == BuildAnnouncement(gen.stealthAddress, gen.ephemeralPubKey,
                                             gen.viewTag)
       IN  /\ AnnouncementLog' = Append(AnnouncementLog, announcement)
           /\ gen' = [gen EXCEPT !.pc = "emitted", !.announcement = announcement]
    /\ UNCHANGED <<recipientKeys, keysThrew, MockRegistry, scan, scriptVars, meta, legacy, parked>>

\* emitAnnouncement returns; return announcement
GenReturn ==
    /\ gen.pc = "emitted"
    /\ gen' = [gen EXCEPT !.pc = "returned", !.returned = gen.announcement]
    /\ UNCHANGED <<recipientKeys, keysThrew, MockRegistry, AnnouncementLog, scan, scriptVars, meta, legacy, parked>>

\* ---------------------------------------------------------- scanAndRecover

\* the announcements main can hand the scanner: the one generateStealthAddress
\* returned (announcementData), the same event announced under another
\* scheme id, and an announcement that carries another view tag in its metadata
ScanInputs ==
    IF gen.pc = "returned"
    THEN {gen.returned,
          [gen.returned EXCEPT !.schemeId = OTHER_SCHEME],
          [gen.returned EXCEPT !.metadata = MetadataOf((gen.viewTag + 1) % BYTE_SPACE)]}
    ELSE {}

\* main hands the call its recipientKeys; the call starts and extracts the
\* view tag from the metadata
ScanStart(announcement) ==
    /\ scan.pc \in {"idle", "done", "threw"}
    /\ KeysReady
    /\ announcement \in ScanInputs
    /\ scan' = [ScanIdle EXCEPT !.pc = "checkTag", !.announcement = announcement,
                                !.recipientKeys = recipientKeys,
                                !.viewTagFromMetadata = ParseViewTag(announcement.metadata)]
    /\ UNCHANGED <<recipientKeys, keysThrew, MockRegistry, AnnouncementLog, gen, scriptVars, meta, legacy, parked>>

\* a tag check that logs the mismatch and goes on to the derivation
ScanCheckTag_goesOn ==
    /\ scan.pc = "checkTag"
    /\ IF IsPointHex(scan.announcement.ephemeralPubKey)
       THEN LET sharedSecret == computeSharedSecret(scan.recipientKeys.viewingPrivKey,
                                                    scan.announcement.ephemeralPubKey)
                hashedSharedSecret == keccak256(sharedSecret)
                calculatedViewTag == FirstByte(hashedSharedSecret)
            IN  scan' = [scan EXCEPT
                           !.sharedSecret = sharedSecret,
                           !.hashedSharedSecret = hashedSharedSecret,
                           !.calculatedViewTag = calculatedViewTag,
                           !.pc = "recover",
                           !.console = IF calculatedViewTag # scan.viewTagFromMetadata
                                       THEN "View Tag Mismatch" ELSE "",
                           !.returned = IF calculatedViewTag # scan.viewTagFromMetadata
                                        THEN Undefined ELSE Pending]
       ELSE scan' = [scan EXCEPT !.pc = "threw", !.returned = Rejected]
    /\ UNCHANGED <<recipientKeys, keysThrew, MockRegistry, AnnouncementLog, gen, scriptVars, meta, legacy, parked>>

\* "1. Check View Tag": on a mismatch the call logs and returns
ScanCheckTag ==
    /\ scan.pc = "checkTag"
    /\ IF IsPointHex(scan.announcement.ephemeralPubKey)
       THEN LET sharedSecret == computeSharedSecret(scan.recipientKeys.viewingPrivKey,
                                                    scan.announcement.ephemeralPubKey)
                hashedSharedSecret == keccak256(sharedSecret)
                calculatedViewTag == FirstByte(hashedSharedSecret)
            IN  scan' = [scan EXCEPT
                           !.sharedSecret = sharedSecret,
                           !.hashedSharedSecret = hashedSharedSecret,
                           !.calculatedViewTag = calculatedViewTag,
                           !.pc = IF calculatedViewTag # scan.viewTagFromMetadata
                                  THEN "done" ELSE "recover",
                           !.console = IF calculatedViewTag # scan.viewTagFromMetadata
                                       THEN "View Tag Mismatch" ELSE "",
                           !.returned = IF calculatedViewTag # scan.viewTagFromMetadata
                                        THEN Undefined ELSE Pending]
       ELSE scan' = [scan EXCEPT !.pc = "threw", !.returned = Rejected]
    /\ UNCHANGED <<recipientKeys, keysThrew, MockRegistry, AnnouncementLog, gen, scriptVars, meta, legacy, parked>>

\* a verification that accepts whatever was derived
AddressesMatch_skipped(derivedAddress, stealthAddress) ==
    derivedAddress = derivedAddress

\* the comparison of "3. Verify Address"
AddressesMatch(derivedAddress, stealthAddress) ==
    toLowerCase(derivedAddress) = toLowerCase(stealthAddress)

\* "2. Derive Stealth Private Key"
ScanDerive ==
    /\ scan.pc = "recover"
    /\ scan' = [scan EXCEPT !.pc = "verify",
                  !.d_stealth = ScalarAddMod(scan.recipientKeys.spendingPrivKey,
                                             scan.hashedSharedSecret)]
    /\ UNCHANGED <<recipientKeys, keysThrew, MockRegistry, AnnouncementLog, gen, scriptVars, meta, legacy, parked>>

\* "3. Verify Address": privateKeyToAddress throws on the key 0
ScanVerify ==
    /\ scan.pc = "verify"
    /\ IF ValidPrivateKey(scan.d_stealth)
       THEN LET derivedAddress == privateKeyToAddress(scan.d_stealth)
            IN  scan' = [scan EXCEPT
                           !.pc = "done",
                           !.derivedAddress = derivedAddress,
                           !.console =
                              IF AddressesMatch(derivedAddress,
                                                scan.announcement.stealthAddress)
                              THEN "SUCCESS" ELSE "FAILURE",
                           !.returned = Undefined]
       ELSE scan' = [scan EXCEPT !.pc = "threw", !.returned = Rejected]
    /\ UNCHANGED <<recipientKeys, keysThrew, MockRegistry, AnnouncementLog, gen, scriptVars, meta, legacy, parked>>

\* ------------------------------------------------------- concurrent calls

\* a tag parsed into a variable that all scanAndRecover calls share
SwitchScan_sharedTag ==
    /\ parked.scan # scan
    /\ scan' = [parked.scan EXCEPT !.viewTagFromMetadata = scan.viewTagFromMetadata]
    /\ parked' = [parked EXCEPT !.scan = scan]
    /\ UNCHANGED <<recipientKeys, keysThrew, MockRegistry, AnnouncementLog, gen,
                   scriptVars, meta, legacy>>

\* two scanAndRecover calls in flight: the running one reaches an await (or
\* its end) and the event loop resumes the other; each call keeps its own
\* locals
SwitchScan ==
    /\ parked.scan # scan
    /\ scan' = parked.scan
    /\ parked' = [parked EXCEPT !.scan = scan]
    /\ UNCHANGED <<recipientKeys, keysThrew, MockRegistry, AnnouncementLog, gen,
                   scriptVars, meta, legacy>>

\* two generateStealthAddress calls in flight: the running one reaches an
\* await (or its end) and the event loop resumes the other
SwitchGen ==
    /\ parked.gen # gen
    /\ gen' = parked.gen
    /\ parked' = [parked EXCEPT !.gen = gen]
    /\ UNCHANGED <<recipientKeys, keysThrew, MockRegistry, AnnouncementLog, scan,
                   scriptVars, meta, legacy>>

\* registerKeys(identifier, spendingPubKey, viewingPubKey) called by anyone:
\* the entry is written before the call's await
registerKeysCall(identifier, spendingPubKey, viewingPubKey) ==
    /\ MockRegistry' = [MockRegistry EXCEPT ![identifier] =
                          [spendingPubKey |-> spendingPubKey,
                           viewingPubKey |-> viewingPubKey]]
    /\ UNCHANGED <<recipientKeys, keysThrew, AnnouncementLog, gen, scan, scriptVars,
                   meta, legacy, parked>>

\* the key pairs registered while calls run concurrently: no two of them
\* share a spending key or a viewing key
ConcKeyPairs ==
    {[spendingPrivKey |-> k, viewingPrivKey |-> k,
      spendingPubKey |-> getPublicKey(k), viewingPubKey |-> getPublicKey(k)] :
        k \in {j \in 1..MaxConcKey : ValidPrivateKey(j)}}

\* the frame of a generateStealthAddress(identifier) call that has returned,
\* for the registered keys and the ephemeral draw e
GeneratedFrame(identifier, keys, e) ==
    LET sharedSecret == computeSharedSecret(e, keys.viewingPubKey)
        hashedSharedSecret == keccak256(sharedSecret)
        viewTag == FirstByte(hashedSharedSecret)
        p_stealth_point == StealthPoint(keys.spendingPubKey, hashedSharedSecret)
        stealthAddress == AddressOfPoint(p_stealth_point)
        announcement == BuildAnnouncement(stealthAddress, getPublicKey(e), viewTag)
    IN  [pc |-> "returned", recipientIdentifier |-> identifier, lookup |-> "returned",
         error |-> "",
         recipientMetaAddress |-> [spendingPubKey |-> keys.spendingPubKey,
                                   viewingPubKey |-> keys.viewingPubKey],
         ephemeralPrivKey |-> e, ephemeralPubKey |-> getPublicKey(e),
         sharedSecret |-> sharedSecret, hashedSharedSecret |-> hashedSharedSecret,
         viewTag |-> viewTag, p_stealth_point |-> p_stealth_point,
         stealthAddress |-> stealthAddress, announcement |-> announcement,
         returned |-> announcement, console |-> <<e>>]

\* ------------------------------------------------------------ test script
\* scripts/test-stealth-address.ts: the same derivation, synchronous, the
\* meta-address passed directly and the view tag returned as a number

\* the key records a recipient can hold: valid private keys with their
\* derived public keys (as main builds recipientKeys)
RecipientKeyPairs ==
    {[spendingPrivKey |-> sp, viewingPrivKey |-> vp,
      spendingPubKey |-> getPublicKey(sp), viewingPubKey |-> getPublicKey(vp)] :
        sp \in {k \in generatePrivateKey : ValidPrivateKey(k)},
        vp \in {k \in generatePrivateKey : ValidPrivateKey(k)}}

\* generateStealthAddress({spendingPubKey, viewingPubKey}) of main's keys
ScriptGenerate(e) ==
    /\ KeysReady
    /\ scriptGen.pc = "idle"
    /\ \E toHexThrowsOnZero \in BOOLEAN :
         IF ~ValidPrivateKey(e)
         THEN scriptGen' = [scriptGen EXCEPT !.pc = "threw", !.ephemeralPrivKey = e]
         ELSE LET ephemeralPubKey == getPublicKey(e)
                  sharedSecret == computeSharedSecret(e, recipientKeys.viewingPubKey)
                  hashedSharedSecret == keccak256(sharedSecret)
                  viewTag == FirstByte(hashedSharedSecret)
                  frame == [scriptGen EXCEPT !.ephemeralPrivKey = e,
                                             !.sharedSecret = sharedSecret,
                                             !.hashedSharedSecret = hashedSharedSecret]
              IN  IF ~ValidPrivateKey(hashedSharedSecret)
                  THEN scriptGen' = [frame EXCEPT !.pc = "threw"]
                  ELSE LET sum == StealthPoint(recipientKeys.spendingPubKey,
                                               hashedSharedSecret)
                       IN  IF sum = ZERO /\ toHexThrowsOnZero
                           THEN scriptGen' = [frame EXCEPT !.pc = "threw"]
                           ELSE scriptGen' =
                                  [frame EXCEPT
                                     !.pc = "returned",
                                     !.p_stealth_point = sum,
                                     !.returned = [stealthAddress |-> AddressOfPoint(sum),
                                                   ephemeralPubKey |-> ephemeralPubKey,
                                                   viewTag |-> viewTag,
                                                   ciphertext |-> "0x..."]]
    /\ UNCHANGED <<recipientKeys, keysThrew, walkVars, scriptScan, meta, legacy, parked>>

\* scanAndRecover(announcement, keys), "1. Check View Tag": the announcement
\* is built from what generateStealthAddress returned
ScriptScanCheckTag(keys) ==
    /\ scriptGen.pc = "returned"
    /\ scriptScan.pc = "idle"
    /\ LET announcement == [ephemeralPubKey |-> scriptGen.returned.ephemeralPubKey,
                            viewTag |-> scriptGen.returned.viewTag,
                            stealthAddress |-> scriptGen.returned.stealthAddress]
           sharedSecret == computeSharedSecret(keys.viewingPrivKey,
                                               announcement.ephemeralPubKey)
           hashedSharedSecret == keccak256(sharedSecret)
           calculatedViewTag == FirstByte(hashedSharedSecret)
       IN  scriptScan' = [scriptScan EXCEPT
                            !.announcement = announcement,
                            !.recipientKeys = keys,
                            !.sharedSecret = sharedSecret,
                            !.hashedSharedSecret = hashedSharedSecret,
                            !.calculatedViewTag = calculatedViewTag,
                            !.pc = IF calculatedViewTag # announcement.viewTag
                                   THEN "done" ELSE "recover",
                            !.console = IF calculatedViewTag # announcement.viewTag
                                        THEN "View Tag Mismatch" ELSE "",
                            !.returned = IF calculatedViewTag # announcement.viewTag
                                         THEN Undefined ELSE Pending]
    /\ UNCHANGED <<recipientKeys, keysThrew, walkVars, scriptGen, meta, legacy, parked>>

\* scanAndRecover, "2. Derive Stealth Private Key"
ScriptScanDerive ==
    /\ scriptScan.pc = "recover"
    /\ scriptScan' = [scriptScan EXCEPT !.pc = "verify",
                        !.d_stealth =
                           ScalarAddMod(scriptScan.recipientKeys.spendingPrivKey,
                                        scriptScan.hashedSharedSecret)]
    /\ UNCHANGED <<recipientKeys, keysThrew, walkVars, scriptGen, meta, legacy, parked>>

\* scanAndRecover, "3. Verify Address"
ScriptScanVerify ==
    /\ scriptScan.pc = "verify"
    /\ IF ValidPrivateKey(scriptScan.d_stealth)
       THEN LET derivedAddress == privateKeyToAddress(scriptScan.d_stealth)
            IN  scriptScan' = [scriptScan EXCEPT
                                 !.pc = "done",
                                 !.derivedAddress = derivedAddress,
                                 !.console =
                                    IF AddressesMatch(derivedAddress,
                                          scriptScan.announcement.stealthAddress)
                                    THEN "SUCCESS" ELSE "FAILURE",
                                 !.returned = Undefined]
       ELSE scriptScan' = [scriptScan EXCEPT !.pc = "threw", !.returned = Rejected]
    /\ UNCHANGED <<recipientKeys, keysThrew, walkVars, scriptGen, meta, legacy, parked>>

\* ------------------------------------------- first version of the script

\* the bytes of a 32-byte digest, as keccak256 takes them when it hashes a digest
DigestBytes(digest) == <<digest>>

\* computeSharedSecret of the first version: keccak256(sharedPoint), the
\* digest of the compressed shared point
computeSharedSecretHashed(privateKey, publicKey) ==
    keccak256(computeSharedSecret(privateKey, publicKey))

\* generateStealthAddress of the first version: the view tag is the first
\* byte of sharedSecret, the scalar is keccak256 of sharedSecret;
\* getPublicKey and ProjectivePoint.fromPrivateKey throw on an invalid scalar
LegacyGenerate(e) ==
    /\ KeysReady
    /\ legacy.pc = "idle"
    /\ \E toHexThrowsOnZero \in BOOLEAN :
         IF ~ValidPrivateKey(e)
         THEN legacy' = [legacy EXCEPT !.pc = "threw", !.ephemeralPrivKey = e]
         ELSE LET sharedSecret == computeSharedSecretHashed(e, recipientKeys.viewingPubKey)
                  s_scalar == keccak256(DigestBytes(sharedSecret))
                  frame == [legacy EXCEPT
                              !.ephemeralPrivKey = e,
                              !.ephemeralPubKey = getPublicKey(e),
                              !.sharedPoint = computeSharedSecret(e, recipientKeys.viewingPubKey),
                              !.sharedSecret = sharedSecret,
                              !.viewTag = FirstByte(sharedSecret),
                              !.s_scalar = s_scalar]
              IN  IF ~ValidPrivateKey(s_scalar)
                  THEN legacy' = [frame EXCEPT !.pc = "threw"]
                  ELSE LET sum == StealthPoint(recipientKeys.spendingPubKey, s_scalar)
                       IN  IF sum = ZERO /\ toHexThrowsOnZero
                           THEN legacy' = [frame EXCEPT !.pc = "threw"]
                           ELSE legacy' = [frame EXCEPT
                                             !.pc = "returned",
                                             !.stealthAddress = AddressOfPoint(sum)]
    /\ UNCHANGED <<recipientKeys, keysThrew, walkVars, scriptVars, meta, parked>>

\* scanAndRecover of the first version, run by main on what the generator
\* returned with the recipient's keys
LegacyScan ==
    /\ legacy.pc = "returned"
    /\ legacy.scanPc = "idle"
    /\ LET sharedSecret == computeSharedSecretHashed(recipientKeys.viewingPrivKey,
                                                     legacy.ephemeralPubKey)
           calculatedViewTag == FirstByte(sharedSecret)
           s_scalar == keccak256(DigestBytes(sharedSecret))
           d_stealth == ScalarAddMod(recipientKeys.spendingPrivKey, s_scalar)
           frame == [legacy EXCEPT !.scanSharedSecret = sharedSecret,
                                   !.calculatedViewTag = calculatedViewTag]
       IN  IF calculatedViewTag # legacy.viewTag
           THEN legacy' = [frame EXCEPT !.scanPc = "done",
                                        !.console = "View Tag Mismatch"]
           ELSE IF ~ValidPrivateKey(d_stealth)
                THEN legacy' = [frame EXCEPT !.scanPc = "threw",
                                             !.scan_s_scalar = s_scalar,
                                             !.d_stealth = d_stealth]
                ELSE legacy' = [frame EXCEPT
                                  !.scanPc = "done",
                                  !.scan_s_scalar = s_scalar,
                                  !.d_stealth = d_stealth,
                                  !.console =
                                     IF AddressesMatch(privateKeyToAddress(d_stealth),
                                                       legacy.stealthAddress)
                                     THEN "SUCCESS" ELSE "FAILURE"]
    /\ UNCHANGED <<recipientKeys, keysThrew, walkVars, scriptVars, meta, parked>>

\* ------------------------------------------------------- meta-address string

\* the meta-addresses of valid key pairs
MetaAddresses ==
    {[spendingPubKey |-> k.spendingPubKey, viewingPubKey |-> k.viewingPubKey] :
        k \in RecipientKeyPairs}

\* generateStealthAddress / main of the walkthrough build metaAddressString
BuildMetaAddressString ==
    /\ meta.recipientMetaAddress # NoMeta
    /\ meta.walkthrough = <<>>
    /\ meta' = [meta EXCEPT !.walkthrough =
                   metaAddressString(meta.recipientMetaAddress.spendingPubKey,
                                     meta.recipientMetaAddress.viewingPubKey)]
    /\ UNCHANGED <<recipientKeys, keysThrew, walkVars, scriptVars, legacy, parked>>

\* the same step in the walkthrough with the registry and no announcer
BuildMetaAddressStringRegistryDemo ==
    /\ meta.recipientMetaAddress # NoMeta
    /\ meta.registryDemo = <<>>
    /\ meta' = [meta EXCEPT !.registryDemo =
                   metaAddressStringRegistryDemo(meta.recipientMetaAddress.spendingPubKey,
                                                 meta.recipientMetaAddress.viewingPubKey)]
    /\ UNCHANGED <<recipientKeys, keysThrew, walkVars, scriptVars, legacy, parked>>

\* the same step in the walkthrough without a registry
BuildMetaAddressStringDirect ==
    /\ meta.recipientMetaAddress # NoMeta
    /\ meta.direct = <<>>
    /\ meta' = [meta EXCEPT !.direct =
                   metaAddressStringDirect(meta.recipientMetaAddress.spendingPubKey,
                                           meta.recipientMetaAddress.viewingPubKey)]
    /\ UNCHANGED <<recipientKeys, keysThrew, walkVars, scriptVars, legacy, parked>>

\* Decode applied to one of the strings built
DecodeMetaAddress(str) ==
    /\ str # <<>>
    /\ meta.decodeInput = <<>>
    /\ meta' = [meta EXCEPT !.decodeInput = str, !.decoded = Decode(str)]
    /\ UNCHANGED <<recipientKeys, keysThrew, walkVars, scriptVars, legacy, parked>>

\* ---------------------------------------------------------- specification

Next ==
    \/ /\ recipientKeys = NoKeys
       /\ \E sp \in generatePrivateKey, vp \in generatePrivateKey : SetupKeys(sp, vp)
    \/ \E identifier \in Identifiers : registerKeys(identifier)
    \/ \E identifier \in Identifiers : GenStart(identifier)
    \/ GenLookup
    \/ /\ gen.pc = "ephemeral"
       /\ \E e \in generatePrivateKey : GenEphemeral(e)
    \/ GenSharedSecret
    \/ GenViewTag
    \/ GenDerive
    \/ GenAddress
    \/ GenEmit
    \/ GenReturn
    \/ \E announcement \in ScanInputs : ScanStart(announcement)
    \/ ScanCheckTag
    \/ ScanDerive
    \/ ScanVerify

Spec == Init /\ [][Next]_vars

\* the test script: its main's key setup, then its two calls, the scan run
\* with the keys of any recipient
ScriptNext ==
    \/ /\ recipientKeys = NoKeys
       /\ \E sp \in generatePrivateKey, vp \in generatePrivateKey : SetupKeys(sp, vp)
    \/ \E e \in generatePrivateKey : ScriptGenerate(e)
    \/ \E keys \in RecipientKeyPairs : ScriptScanCheckTag(keys)
    \/ ScriptScanDerive
    \/ ScriptScanVerify

ScriptSpec == Init /\ [][ScriptNext]_vars

\* the scalar addition of scanAndRecover on its own: the spending key and the
\* digest are any two 32-byte values
ArithInit ==
    /\ recipientKeys = NoKeys
    /\ keysThrew = FALSE
    /\ MockRegistry = [id \in Identifiers |-> NoMeta]
    /\ AnnouncementLog = <<>>
    /\ gen = GenIdle
    /\ scan = ScanIdle
    /\ scriptGen = ScriptGenIdle
    /\ meta = NoStrings
    /\ legacy = LegacyIdle
    /\ parked = NoneParked
    /\ \E a \in generatePrivateKey, b \in generatePrivateKey :
          scriptScan = [ScriptScanIdle EXCEPT !.pc = "recover",
                                             !.recipientKeys.spendingPrivKey = a,
                                             !.hashedSharedSecret = b]

\* the call is synchronous: once it has reached the addition it runs on
ArithSpec == ArithInit /\ [][ScriptScanDerive]_vars /\ WF_vars(ScriptScanDerive)

\* the first version of the script: its main's key setup, then its two calls
LegacyNext ==
    \/ /\ recipientKeys = NoKeys
       /\ \E sp \in generatePrivateKey, vp \in generatePrivateKey : SetupKeys(sp, vp)
    \/ \E e \in generatePrivateKey : LegacyGenerate(e)
    \/ LegacyScan

LegacySpec == Init /\ [][LegacyNext]_vars

\* the announcement's metadata on its own: generateStealthAddress is about to
\* build its announcement, the view tag is any byte, and main then hands
\* what the call returns to scanAndRecover
TagInit ==
    /\ recipientKeys \in RecipientKeyPairs
    /\ keysThrew = FALSE
    /\ MockRegistry = [id \in Identifiers |-> NoMeta]
    /\ AnnouncementLog = <<>>
    /\ \E viewTag \in 0..(BYTE_SPACE - 1), digits \in 0..(ADDR_SPACE - 1),
          e \in {k \in generatePrivateKey : ValidPrivateKey(k)} :
          gen = [GenIdle EXCEPT !.pc = "emit", !.viewTag = viewTag,
                                !.ephemeralPrivKey = e,
                                !.ephemeralPubKey = getPublicKey(e),
                                !.stealthAddress = Address(digits, FALSE)]
    /\ scan = ScanIdle
    /\ scriptGen = ScriptGenIdle
    /\ scriptScan = ScriptScanIdle
    /\ meta = NoStrings
    /\ legacy = LegacyIdle
    /\ parked = NoneParked

TagNext ==
    \/ GenEmit
    \/ GenReturn
    \/ \E announcement \in ScanInputs : ScanStart(announcement)

TagSpec == TagInit /\ [][TagNext]_vars

\* concurrent scans: main has registered its keys under the raw address, a
\* generateStealthAddress call has returned its announcement, and two
\* scanAndRecover calls are made on the announcements at hand, interleaved
\* at their awaits in any way
ConcScanInit ==
    /\ recipientKeys \in RecipientKeyPairs
    /\ keysThrew = FALSE
    /\ MockRegistry =
          [id \in Identifiers |->
             IF id = "0x1234567890123456789012345678901234567890"
             THEN [spendingPubKey |-> recipientKeys.spendingPubKey,
                   viewingPubKey |-> recipientKeys.viewingPubKey]
             ELSE NoMeta]
    /\ \E e \in {k \in generatePrivateKey : ValidPrivateKey(k)} :
          /\ ValidPrivateKey(keccak256(computeSharedSecret(e, recipientKeys.viewingPubKey)))
          /\ gen = GeneratedFrame("0x1234567890123456789012345678901234567890",
                                  recipientKeys, e)
    /\ AnnouncementLog = <<gen.returned>>
    /\ scan = ScanIdle
    /\ scriptGen = ScriptGenIdle
    /\ scriptScan = ScriptScanIdle
    /\ meta = NoStrings
    /\ legacy = LegacyIdle
    /\ parked = NoneParked

ConcScanNext ==
    \/ \E announcement \in ScanInputs : ScanStart(announcement)
    \/ ScanCheckTag
    \/ ScanDerive
    \/ ScanVerify
    \/ SwitchScan

ConcScanSpec == ConcScanInit /\ [][ConcScanNext]_vars

\* concurrent generations: the recipient's keys are registered under the raw
\* address, two generateStealthAddress calls for it have started and wait
\* in lookupKeys, and registerKeys calls for the same identifier come in
\* between their steps; the recipient scans once both calls have ended
ConcGenInit ==
    /\ recipientKeys \in ConcKeyPairs
    /\ keysThrew = FALSE
    /\ MockRegistry =
          [id \in Identifiers |->
             IF id = "0x1234567890123456789012345678901234567890"
             THEN [spendingPubKey |-> recipientKeys.spendingPubKey,
                   viewingPubKey |-> recipientKeys.viewingPubKey]
             ELSE NoMeta]
    /\ AnnouncementLog = <<>>
    /\ gen = [GenIdle EXCEPT !.pc = "lookup",
                 !.recipientIdentifier = "0x1234567890123456789012345678901234567890"]
    /\ scan = ScanIdle
    /\ scriptGen = ScriptGenIdle
    /\ scriptScan = ScriptScanIdle
    /\ meta = NoStrings
    /\ legacy = LegacyIdle
    /\ parked = [NoneParked EXCEPT !.gen = gen]

ConcGenNext ==
    \/ \E keys \in ConcKeyPairs :
          registerKeysCall("0x1234567890123456789012345678901234567890",
                           keys.spendingPubKey, keys.viewingPubKey)
    \/ GenLookup
    \/ \E e \in 1..MaxConcKey : GenEphemeral(e)
    \/ GenSharedSecret
    \/ GenViewTag
    \/ GenDerive
    \/ GenAddress
    \/ GenEmit
    \/ GenReturn
    \/ SwitchGen
    \/ /\ gen.pc \in {"returned", "threw"}
       /\ parked.gen.pc \in {"returned", "threw"}
       /\ \E announcement \in ScanInputs : ScanStart(announcement)
    \/ ScanCheckTag
    \/ ScanDerive
    \/ ScanVerify

ConcGenSpec == ConcGenInit /\ [][ConcGenNext]_vars

\* the identifiers callers hand to registerKeys and lookupKeys: main's two,
\* a member name of Object.prototype, the prototype slot, and a field name
\* of the registered objects
RegistryIdentifiers == Identifiers \cup {"__proto__", "spendingPubKey"}

\* the registry on its own: the recipient registers the keys under any
\* identifiers, senders generate for any identifier, the recipient scans
RegistryInit ==
    /\ recipientKeys \in ConcKeyPairs
    /\ keysThrew = FALSE
    /\ MockRegistry = [id \in RegistryIdentifiers |-> NoMeta]
    /\ AnnouncementLog = <<>>
    /\ gen = GenIdle
    /\ scan = ScanIdle
    /\ scriptGen = ScriptGenIdle
    /\ scriptScan = ScriptScanIdle
    /\ meta = NoStrings
    /\ legacy = LegacyIdle
    /\ parked = NoneParked

RegistryNext ==
    \/ \E identifier \in RegistryIdentifiers : registerKeys(identifier)
    \/ \E identifier \in RegistryIdentifiers : GenStart(identifier)
    \/ GenLookup
    \/ \E e \in 1..MaxConcKey : GenEphemeral(e)
    \/ GenSharedSecret
    \/ GenViewTag
    \/ GenDerive
    \/ GenAddress
    \/ GenEmit
    \/ GenReturn
    \/ \E announcement \in ScanInputs : ScanStart(announcement)
    \/ ScanCheckTag
    \/ ScanDerive
    \/ ScanVerify

RegistrySpec == RegistryInit /\ [][RegistryNext]_vars

\* where main is: its statements run in program order, each awaited, so
\* its position is read off what has been done so far
MainAt ==
    IF scan.pc # "idle" THEN "scanAndRecover"
    ELSE IF gen.pc = "returned" THEN "scan"
    ELSE IF gen.pc = "threw" THEN "rejected"
    ELSE IF gen.pc # "idle" THEN "generateStealthAddress"
    ELSE IF keysThrew THEN "rejected"
    ELSE IF recipientKeys = NoKeys THEN "setup"
    ELSE IF MockRegistry["alice.eth"] = NoMeta THEN "registerEns"
    ELSE IF MockRegistry["0x1234567890123456789012345678901234567890"] = NoMeta
         THEN "registerRaw"
    ELSE "generate"

\* "1. Setup Recipient Keys"
MainSetup ==
    /\ MainAt = "setup"
    /\ \E sp \in generatePrivateKey, vp \in generatePrivateKey : SetupKeys(sp, vp)

\* "SCENARIO A": await registerKeys(ensHandle, spendingPubKey, viewingPubKey)
MainRegisterEns ==
    /\ MainAt = "registerEns"
    /\ registerKeys("alice.eth")

\* "SCENARIO B": await registerKeys(rawAddress, spendingPubKey, viewingPubKey)
MainRegisterRaw ==
    /\ MainAt = "registerRaw"
    /\ registerKeys("0x1234567890123456789012345678901234567890")

\* a main that calls the generator before the raw address is registered
MainGenerate_beforeRegisterRaw ==
    /\ MainAt = "registerRaw"
    /\ GenStart("0x1234567890123456789012345678901234567890")

\* "2. Sender Generates Stealth Address": await generateStealthAddress(rawAddress)
MainGenerate ==
    /\ MainAt = "generate"
    /\ GenStart("0x1234567890123456789012345678901234567890")

\* "3. Recipient Scans and Recovers": await scanAndRecover(announcementData,
\* recipientKeys)
MainScan ==
    /\ MainAt = "scan"
    /\ ScanStart(gen.returned)

MainNext ==
    \/ MainSetup
    \/ MainRegisterEns
    \/ MainRegisterRaw
    \/ MainGenerate
    \/ GenLookup
    \/ /\ gen.pc = "ephemeral"
       /\ \E e \in generatePrivateKey : GenEphemeral(e)
    \/ GenSharedSecret
    \/ GenViewTag
    \/ GenDerive
    \/ GenAddress
    \/ GenEmit
    \/ GenReturn
    \/ MainScan
    \/ ScanCheckTag
    \/ ScanDerive
    \/ ScanVerify

MainSpec == Init /\ [][MainNext]_vars

\* the meta-address strings on their own: the pair is any pair of valid keys
MetaInit ==
    /\ recipientKeys = NoKeys
    /\ keysThrew = FALSE
    /\ MockRegistry = [id \in Identifiers |-> NoMeta]
    /\ AnnouncementLog = <<>>
    /\ gen = GenIdle
    /\ scan = ScanIdle
    /\ scriptGen = ScriptGenIdle
    /\ scriptScan = ScriptScanIdle
    /\ legacy = LegacyIdle
    /\ parked = NoneParked
    /\ \E m \in MetaAddresses : meta = [NoStrings EXCEPT !.recipientMetaAddress = m]

MetaNext ==
    \/ BuildMetaAddressString
    \/ BuildMetaAddressStringRegistryDemo
    \/ BuildMetaAddressStringDirect
    \/ \E str \in {meta.walkthrough, meta.registryDemo, meta.direct} :
          DecodeMetaAddress(str)

MetaSpec == MetaInit /\ [][MetaNext]_vars

\* ================================================================ claims

\* the walkthrough's scan of the announcement its generator returned, with
\* the recipient's own keys, has ended
OwnScanEnded ==
    /\ gen.pc = "returned"
    /\ scan.pc \in {"done", "threw"}
    /\ scan.announcement = gen.returned
    /\ scan.recipientKeys = recipientKeys

\* C1: generating for the recipient's meta-address and then scanning the
\* resulting announcement with that recipient's keys always ends in the
\* success outcome (never tag mismatch, verification failure or an error).
C1_RoundTripSucceeds == OwnScanEnded => scan.console = "SUCCESS"

\* C1, apart from the identity sum: the round trip succeeds whenever the
\* recovered key is not 0
C1_RoundTripUnlessZero ==
    (OwnScanEnded /\ scan.d_stealth # 0) => scan.console = "SUCCESS"

\* C2: ECDH is commutative: for the valid pairs (e, E) of the sender and
\* (v, V) of any scanning recipient, computeSharedSecret(v, E) equals
\* computeSharedSecret(e, V); so with the recipient's own keys the scanner's
\* shared secret is the one the generator computed.
C2_ECDHCommutative ==
    scriptScan.pc # "idle" =>
        /\ scriptScan.sharedSecret =
              computeSharedSecret(scriptGen.ephemeralPrivKey,
                                  scriptScan.recipientKeys.viewingPubKey)
        /\ scriptScan.recipientKeys.viewingPubKey = recipientKeys.viewingPubKey
              => scriptScan.sharedSecret = scriptGen.sharedSecret

C2_Witness ==
    /\ scriptScan.pc # "idle"
    /\ scriptScan.recipientKeys = recipientKeys
    /\ scriptScan.recipientKeys.viewingPrivKey # scriptGen.ephemeralPrivKey
    /\ scriptScan.sharedSecret = scriptGen.sharedSecret

\* the test script's scanner has matched the view tag and derived a key
ScriptKeyDerived ==
    /\ scriptScan.pc \in {"verify", "done", "threw"}
    /\ scriptScan.calculatedViewTag = scriptScan.announcement.viewTag

\* C3: when the view tag matched and the scanner holds the keys the
\* announcement was generated for, the public point of the recovered key
\* (d + h) mod CURVE_ORDER is the point the generator computed as
\* spendingPubKey + h * G.
C3_RecoveredKeyMatchesPoint ==
    (ScriptKeyDerived /\ scriptScan.recipientKeys = recipientKeys) =>
        ScalarMul(scriptScan.d_stealth, BASE) = scriptGen.p_stealth_point

C3_Witness ==
    /\ ScriptKeyDerived
    /\ scriptScan.recipientKeys = recipientKeys
    /\ scriptScan.recipientKeys.spendingPrivKey + scriptScan.hashedSharedSecret
          > CURVE_ORDER
    /\ ScalarMul(scriptScan.d_stealth, BASE) = scriptGen.p_stealth_point

\* C4: for the recipient's own keys the calculated view tag of an
\* announcement generated for that recipient equals the tag the announcement
\* carries: the scan never ends in a view tag mismatch.
C4_OwnViewTagMatches ==
    (/\ scan.pc \in {"recover", "verify", "done", "threw"}
     /\ scan.recipientKeys = recipientKeys
     /\ gen.pc = "returned"
     /\ scan.announcement.ephemeralPubKey = gen.returned.ephemeralPubKey
     /\ scan.announcement.metadata = gen.returned.metadata) =>
        /\ scan.calculatedViewTag = scan.viewTagFromMetadata
        /\ scan.calculatedViewTag = gen.viewTag
        /\ scan.console # "View Tag Mismatch"

C4_Witness ==
    /\ scan.pc = "recover"
    /\ scan.recipientKeys = recipientKeys
    /\ gen.pc = "returned"
    /\ scan.announcement = gen.returned
    /\ scan.calculatedViewTag = gen.viewTag
    /\ scan.calculatedViewTag > 0

\* the test script's scan ran with the keys of a recipient who shares neither
\* private key with the one the announcement was generated for
UnrelatedScanEnded ==
    /\ scriptScan.pc \in {"done", "threw"}
    /\ scriptScan.recipientKeys.spendingPrivKey # recipientKeys.spendingPrivKey
    /\ scriptScan.recipientKeys.viewingPrivKey # recipientKeys.viewingPrivKey

\* C5 as stated: scanning an announcement generated for K1 with the keys of an
\* unrelated recipient K2 never ends in the success outcome.
C5_UnrelatedNeverSucceeds ==
    UnrelatedScanEnded => scriptScan.console # "SUCCESS"

\* C5 as amended: such a scan ends in the success outcome only when the view
\* tag collides and the address of the key K2 recovers equals the announced
\* stealthAddress, which is the case whenever K2's key (d2 + h2) mod CURVE_ORDER
\* is the non-zero key (d1 + h1) mod CURVE_ORDER of the announced address; in
\* every other case it ends in a view tag mismatch, in a verification failure,
\* or in an error on the key 0.
C5_UnrelatedSucceedsOnlyOnSameKey ==
    UnrelatedScanEnded =>
        LET tagMatched == scriptScan.calculatedViewTag = scriptScan.announcement.viewTag
            sameKey == scriptScan.d_stealth =
                          ScalarAddMod(recipientKeys.spendingPrivKey,
                                       scriptGen.hashedSharedSecret)
        IN  /\ scriptScan.console = "SUCCESS" <=>
                  /\ tagMatched
                  /\ scriptScan.d_stealth # 0
                  /\ toLowerCase(scriptScan.derivedAddress)
                        = toLowerCase(scriptScan.announcement.stealthAddress)
            /\ (tagMatched /\ sameKey /\ scriptScan.d_stealth # 0)
                  => scriptScan.console = "SUCCESS"
            /\ scriptScan.console # "SUCCESS" =>
                  \/ ~tagMatched /\ scriptScan.console = "View Tag Mismatch"
                  \/ tagMatched /\ scriptScan.console = "FAILURE"
                  \/ tagMatched /\ scriptScan.d_stealth = 0 /\ scriptScan.pc = "threw"

\* the unrelated recipient's tag collides and its recovered key is the key of
\* the announced address
C5_Witness ==
    /\ UnrelatedScanEnded
    /\ scriptScan.calculatedViewTag = scriptScan.announcement.viewTag
    /\ scriptScan.d_stealth = ScalarAddMod(recipientKeys.spendingPrivKey,
                                           scriptGen.hashedSharedSecret)
    /\ scriptScan.console = "SUCCESS"

\* C6: every key generatePrivateKey returned (main's two keys, the sender's
\* ephemeral key) is a scalar k with 0 < k < CURVE_ORDER, and no caller saw a
\* failure caused by a draw.
C6_GeneratedKeysInRange ==
    /\ ~keysThrew
    /\ recipientKeys.spendingPrivKey # 0 - 1
          => ValidPrivateKey(recipientKeys.spendingPrivKey)
    /\ recipientKeys.viewingPrivKey # 0 - 1
          => ValidPrivateKey(recipientKeys.viewingPrivKey)
    /\ scriptGen.ephemeralPrivKey # 0 - 1
          => ValidPrivateKey(scriptGen.ephemeralPrivKey)

\* the scalar addition has been applied
ScalarAdded == scriptScan.pc \in {"verify", "done", "threw"}

\* the result of the scalar addition is reduced and congruent to a + b
ScalarSumReduced ==
    LET a == scriptScan.recipientKeys.spendingPrivKey
        b == scriptScan.hashedSharedSecret
        r == scriptScan.d_stealth
    IN  /\ 0 <= r /\ r < CURVE_ORDER
        /\ \E q \in 0..(2 * KEY_SPACE) : a + b = q * CURVE_ORDER + r
        /\ (a = CURVE_ORDER - 1 /\ b = 2) => r = 1

\* C7: for any 32-byte a and b the scalar addition is total (it always
\* yields a result) and its result r satisfies 0 <= r < CURVE_ORDER and
\* r = a + b (mod CURVE_ORDER); a = CURVE_ORDER - 1, b = 2 yields 1.
C7_ScalarAddReduced == [](ScalarAdded => ScalarSumReduced) /\ <>ScalarAdded

C7_Witness ==
    /\ ScalarAdded
    /\ scriptScan.recipientKeys.spendingPrivKey = CURVE_ORDER - 1
    /\ scriptScan.hashedSharedSecret = 2
    /\ scriptScan.d_stealth = 1

\* C8: when the view tag matched but the derived address differs from the
\* announced one, what scanAndRecover returns differs from what it returns on
\* a view tag mismatch (the value undefined).
C8_MismatchDistinguishable ==
    (scriptScan.pc = "done" /\ scriptScan.console = "FAILURE") =>
        scriptScan.returned # Undefined

\* C9: on a successful match scanAndRecover returns the stealth address
\* together with the recovered stealth private key.
C9_SuccessReturnsKeyPair ==
    (scan.pc = "done" /\ scan.console = "SUCCESS") =>
        scan.returned = [type |-> "StealthKeyPair",
                         stealthAddress |-> scan.announcement.stealthAddress,
                         stealthPrivateKey |-> scan.d_stealth]

\* C10: every announcement the generator emits carries schemeId = 1, and the
\* scanner computes no shared secret and recovers no key from an announcement
\* whose schemeId is not 1.
C10_OtherSchemesIgnored ==
    /\ \A i \in 1..Len(AnnouncementLog) : AnnouncementLog[i].schemeId = SCHEME_ID
    /\ (scan.pc # "idle" /\ scan.announcement.schemeId # SCHEME_ID) =>
          /\ scan.sharedSecret = <<>>
          /\ scan.d_stealth = 0 - 1
          /\ scan.console # "SUCCESS"

\* a generateStealthAddress call has just failed
GenFails == gen.pc # "threw" /\ gen'.pc = "threw"

\* C11: a failing step of generateStealthAddress (registry miss, invalid
\* ephemeral draw, invalid digest scalar, rejected point sum) ends the call
\* with the error and leaves AnnouncementLog as it is; a call that failed has
\* announced nothing; and the log changes only by appending one announcement
\* whose stealthAddress, ephemeralPubKey and view tag have all been derived.
C11_FailureLeavesLog ==
    /\ [](gen.pc = "threw" => gen.announcement = NoAnnouncement)
    /\ [][GenFails => AnnouncementLog' = AnnouncementLog]_vars
    /\ [][AnnouncementLog' # AnnouncementLog =>
            /\ gen.stealthAddress # NoAddress
            /\ gen.ephemeralPubKey # <<>>
            /\ gen.viewTag # 0 - 1
            /\ AnnouncementLog' =
                  Append(AnnouncementLog,
                         BuildAnnouncement(gen.stealthAddress, gen.ephemeralPubKey,
                                           gen.viewTag))]_vars

\* a call failed at the point derivation, after its ephemeral key and view
\* tag were derived, and the log is still empty
C11_Witness ==
    /\ gen.pc = "threw"
    /\ gen.viewTag # 0 - 1
    /\ gen.ephemeralPubKey # <<>>
    /\ AnnouncementLog = <<>>

\* C12: lookupKeys(id) fails with the not-found error when no registration
\* for id has been written, and otherwise returns exactly the pair registered
\* under id.
C12_LookupFindsRegistered ==
    [][(gen.pc = "lookup" /\ gen'.pc # "lookup") =>
         IF MockRegistry[gen.recipientIdentifier] = NoMeta
         THEN /\ gen'.lookup = "threw"
              /\ gen'.error = "Recipient not found in registry!"
         ELSE /\ gen'.lookup = "returned"
              /\ gen'.recipientMetaAddress = MockRegistry[gen.recipientIdentifier]]_vars

\* C12 for the identifiers that name no member of Object.prototype
C12_LookupOfPlainNames ==
    [][(gen.pc = "lookup" /\ gen'.pc # "lookup"
          /\ gen.recipientIdentifier \notin ObjectPrototypeMembers) =>
         IF MockRegistry[gen.recipientIdentifier] = NoMeta
         THEN /\ gen'.lookup = "threw"
              /\ gen'.error = "Recipient not found in registry!"
         ELSE /\ gen'.lookup = "returned"
              /\ gen'.recipientMetaAddress = MockRegistry[gen.recipientIdentifier]]_vars

\* C13: the sum spendingPubKey + s * G is never accepted when it is the
\* identity (s = CURVE_ORDER - spendingPrivKey, recovered key 0): the generator
\* returns no address for it, and the scanner never reports a recovered key
\* for it.
C13_IdentityNeverAnnounced ==
    /\ scriptGen.pc = "returned" =>
          /\ scriptGen.p_stealth_point # ZERO
          /\ ScalarAddMod(recipientKeys.spendingPrivKey,
                          scriptGen.hashedSharedSecret) # 0
    /\ (scriptScan.pc \in {"done", "threw"} /\ scriptScan.d_stealth = 0) =>
          scriptScan.console # "SUCCESS"

\* C13, the scanner's half alone: a recovered key 0 never ends in SUCCESS
\* (privateKeyToAddress throws on it)
C13_ZeroKeyNeverReported ==
    (scriptScan.pc \in {"done", "threw"} /\ scriptScan.d_stealth = 0) =>
        (scriptScan.pc = "threw" /\ scriptScan.console # "SUCCESS")

\* the canonical wire form of a pair of keys: the tag st:eth:, one 0x, the
\* bytes of the spending key, then the bytes of the viewing key, nothing else
IsCanonicalForm(str, m) ==
    LET n == Len(m.spendingPubKey)
    IN  /\ Len(str) = 2 + n + Len(m.viewingPubKey)
        /\ str[1] = "st:eth:"
        /\ str[2] = "0x"
        /\ \A i \in 1..n : str[2 + i] = ToString(m.spendingPubKey[i])
        /\ \A i \in 1..Len(m.viewingPubKey) :
              str[2 + n + i] = ToString(m.viewingPubKey[i])

\* C14: the meta-address string built for any pair of keys, in each version
\* of the walkthrough, is the canonical wire form.
C14_MetaAddressCanonical ==
    /\ meta.walkthrough # <<>> => IsCanonicalForm(meta.walkthrough, meta.recipientMetaAddress)
    /\ meta.registryDemo # <<>> => IsCanonicalForm(meta.registryDemo, meta.recipientMetaAddress)
    /\ meta.direct # <<>> => IsCanonicalForm(meta.direct, meta.recipientMetaAddress)

\* C14 for the walkthrough with registry and announcer alone
C14_WalkthroughCanonical ==
    meta.walkthrough # <<>> => IsCanonicalForm(meta.walkthrough, meta.recipientMetaAddress)

\* C15: decoding the meta-address string main builds for a valid pair of
\* keys gives back that pair, spending key first: Decode(Encode(m)) = m.
C15_MetaAddressRoundTrip ==
    (meta.decodeInput # <<>> /\ meta.decodeInput = meta.walkthrough) =>
        /\ meta.decoded.ok
        /\ meta.decoded.value = meta.recipientMetaAddress

\* a pair of two different keys has been encoded and decoded
C15_Witness ==
    /\ meta.decodeInput # <<>>
    /\ meta.decodeInput = meta.walkthrough
    /\ meta.recipientMetaAddress.spendingPubKey # meta.recipientMetaAddress.viewingPubKey
    /\ meta.decoded.value = meta.recipientMetaAddress

\* what a caller scanning the log collects from the finished scanAndRecover
\* call: the key pair it returned, nothing when it returned no key pair
RecoveredOutput ==
    IF scan.returned # Undefined /\ scan.returned # Rejected /\ scan.returned # Pending
    THEN <<scan.returned>>
    ELSE <<>>

\* the announcements of the log which the finished scan matched, in log order
MatchedInLog ==
    SelectSeq(AnnouncementLog,
              LAMBDA a : a = scan.announcement /\ scan.console = "SUCCESS")

\* C16: scanning the announcements of the log yields the recovered key pairs
\* of the matching announcements, one per match and in the order of the log.
C16_RecoveriesInLogOrder ==
    (scan.pc = "done" /\ scan.recipientKeys = recipientKeys) =>
        /\ Len(RecoveredOutput) = Len(MatchedInLog)
        /\ \A i \in 1..Len(MatchedInLog) :
              RecoveredOutput[i].stealthAddress = MatchedInLog[i].stealthAddress

\* the test script's generator has ended after a valid ephemeral draw and a
\* digest of its shared secret
ScriptDigestTaken ==
    /\ scriptGen.pc \in {"returned", "threw"}
    /\ ValidPrivateKey(scriptGen.ephemeralPrivKey)
    /\ scriptGen.hashedSharedSecret # 0 - 1

\* C17: for every digest, also one >= CURVE_ORDER, whose reduced value is a
\* usable scalar, generation succeeds and the point it derives is
\* spendingPubKey + (digest mod CURVE_ORDER) * G, the scalar the scanner adds.
C17_DigestReduced ==
    (/\ ScriptDigestTaken
     /\ scriptGen.hashedSharedSecret % CURVE_ORDER # 0
     /\ ScalarAddMod(recipientKeys.spendingPrivKey, scriptGen.hashedSharedSecret) # 0) =>
        /\ scriptGen.pc = "returned"
        /\ scriptGen.p_stealth_point =
              PointAdd(FromHex(recipientKeys.spendingPubKey),
                       ScalarMul(scriptGen.hashedSharedSecret % CURVE_ORDER, BASE))

\* C17 for the digests below CURVE_ORDER
C17_SmallDigestUsed ==
    (/\ ScriptDigestTaken
     /\ ValidPrivateKey(scriptGen.hashedSharedSecret)
     /\ ScalarAddMod(recipientKeys.spendingPrivKey, scriptGen.hashedSharedSecret) # 0) =>
        /\ scriptGen.pc = "returned"
        /\ scriptGen.p_stealth_point =
              PointAdd(FromHex(recipientKeys.spendingPubKey),
                       ScalarMul(scriptGen.hashedSharedSecret % CURVE_ORDER, BASE))

\* C18: generator and scanner take the view tag and the scalar from one
\* digest, the hash of the compressed ECDH output: the view tag is its first
\* byte and the scalar is that same digest.
C18_SingleHash ==
    /\ legacy.pc = "returned" =>
          /\ legacy.viewTag = FirstByte(keccak256(legacy.sharedPoint))
          /\ legacy.s_scalar = keccak256(legacy.sharedPoint)
    /\ legacy.scan_s_scalar # 0 - 1 =>
          /\ legacy.calculatedViewTag = FirstByte(keccak256(legacy.sharedPoint))
          /\ legacy.scan_s_scalar = keccak256(legacy.sharedPoint)

\* C18 in the later script: tag and scalar come from the one digest
\* hashedSharedSecret of the compressed shared secret
C18_ScriptSingleHash ==
    /\ scriptGen.pc = "returned" =>
          /\ scriptGen.returned.viewTag = FirstByte(keccak256(scriptGen.sharedSecret))
          /\ scriptGen.p_stealth_point =
                StealthPoint(recipientKeys.spendingPubKey,
                             keccak256(scriptGen.sharedSecret))
    /\ scriptScan.pc # "idle" =>
          scriptScan.calculatedViewTag = FirstByte(keccak256(scriptScan.sharedSecret))
    /\ scriptScan.d_stealth # 0 - 1 =>
          scriptScan.d_stealth =
                ScalarAddMod(scriptScan.recipientKeys.spendingPrivKey,
                             keccak256(scriptScan.sharedSecret))

\* the scan has ended in a view tag mismatch
TagMismatched == scan.console = "View Tag Mismatch"

\* C19: on a view tag mismatch scanAndRecover stops: it has derived no key
\* and verified no address, it returns without a value, the step that finds
\* the mismatch leaves the announcement, the log and the registry as they
\* were, and the call does nothing after it.
C19_MismatchStops ==
    /\ [](TagMismatched =>
            /\ scan.pc = "done"
            /\ scan.calculatedViewTag # scan.viewTagFromMetadata
            /\ scan.d_stealth = 0 - 1
            /\ scan.derivedAddress = NoAddress
            /\ scan.returned = Undefined)
    /\ [][(~TagMismatched /\ TagMismatched') =>
            /\ scan'.announcement = scan.announcement
            /\ AnnouncementLog' = AnnouncementLog
            /\ MockRegistry' = MockRegistry]_vars
    /\ [][(TagMismatched /\ scan'.pc # "checkTag") => scan' = scan]_vars

\* a scan with the recipient's keys has ended in a view tag mismatch while
\* the log holds the announcement
C19_Witness ==
    /\ TagMismatched
    /\ scan.pc = "done"
    /\ scan.recipientKeys = recipientKeys
    /\ Len(AnnouncementLog) > 0

\* C20: for every view tag the metadata of the announcement is exactly one
\* byte, two digits with a leading zero where needed, spelling the view tag;
\* and the view tag scanAndRecover extracts from the metadata of the
\* announcement the generator returned is the generator's view tag.
C20_MetadataCarriesViewTag ==
    /\ gen.announcement # NoAnnouncement =>
          /\ Len(gen.announcement.metadata) = 2
          /\ \A i \in 1..2 : gen.announcement.metadata[i] \in 0..(HEX_RADIX - 1)
          /\ gen.announcement.metadata[1] * HEX_RADIX + gen.announcement.metadata[2]
                = gen.viewTag
    /\ (scan.pc # "idle" /\ gen.pc = "returned" /\ scan.announcement = gen.returned) =>
          scan.viewTagFromMetadata = gen.viewTag

\* the scanner has extracted a one-digit view tag from its padded metadata
C20_Witness ==
    /\ scan.pc # "idle"
    /\ gen.pc = "returned"
    /\ scan.announcement = gen.returned
    /\ gen.viewTag = 1
    /\ gen.returned.metadata = <<0, 1>>
    /\ scan.viewTagFromMetadata = 1

\* what a scanAndRecover call ended with
ScanOutcome(frame) ==
    [pc |-> frame.pc, console |-> frame.console, returned |-> frame.returned,
     d_stealth |-> frame.d_stealth, derivedAddress |-> frame.derivedAddress]

\* C21: scans are isolated: a step of the running scanAndRecover call leaves
\* the suspended call's frame as it is, and two calls that have ended on the
\* same announcement with the same keys have ended with the same outcome and
\* the same recovered key, however the two were ordered and interleaved.
C21_ScansIsolated ==
    /\ [][\/ parked'.scan = parked.scan
          \/ (parked'.scan = scan /\ scan' = parked.scan)]_vars
    /\ []((/\ scan.pc \in {"done", "threw"}
           /\ parked.scan.pc \in {"done", "threw"}
           /\ scan.announcement = parked.scan.announcement
           /\ scan.recipientKeys = parked.scan.recipientKeys) =>
              ScanOutcome(scan) = ScanOutcome(parked.scan))

\* two interleaved scans of different announcements have both ended, one in
\* SUCCESS and one in a view tag mismatch
C21_Witness ==
    /\ scan.pc = "done"
    /\ parked.scan.pc = "done"
    /\ scan.announcement # parked.scan.announcement
    /\ scan.console = "SUCCESS"
    /\ parked.scan.console = "View Tag Mismatch"

\* C22: once generateStealthAddress has returned, the ephemeral private key
\* of the call is in nothing the call has left behind: it is not among the
\* values written to the console.
C22_EphemeralKeyNotRetained ==
    gen.pc = "returned" =>
        \A i \in 1..Len(gen.console) : gen.console[i] # gen.ephemeralPrivKey

\* the part that holds: the announcement returned and logged is made of the
\* address, the ephemeral public key, the metadata byte and two fixed values,
\* all of them derived from public values and the view tag
C22_AnnouncementFieldsPublic ==
    gen.pc = "returned" =>
        /\ DOMAIN gen.returned =
              {"schemeId", "stealthAddress", "caller", "ephemeralPubKey", "metadata"}
        /\ gen.returned.ephemeralPubKey = getPublicKey(gen.ephemeralPrivKey)
        /\ gen.returned.metadata = MetadataOf(gen.viewTag)
        /\ gen.returned.schemeId = SCHEME_ID
        /\ AnnouncementLog[Len(AnnouncementLog)] = gen.returned
        /\ \A id \in Identifiers :
              MockRegistry[id] \in {NoMeta, [spendingPubKey |-> recipientKeys.spendingPubKey,
                                             viewingPubKey |-> recipientKeys.viewingPubKey]}

\* the emitAnnouncement calls started by the two generateStealthAddress
\* calls: a call has started its emitAnnouncement when it is past "emit"
EmitsStarted ==
    (IF gen.pc \in {"emitted", "returned"} THEN 1 ELSE 0)
    + (IF parked.gen.pc \in {"emitted", "returned"} THEN 1 ELSE 0)

\* C23: AnnouncementLog is append-only: the step in which a call starts its
\* emitAnnouncement appends that call's announcement at the end and keeps
\* all earlier entries in place, every other step (registration, lookup,
\* derivation, scan, switch between calls) leaves the log as it is, and the
\* length of the log is the number of emitAnnouncement calls started.
C23_LogAppendOnly ==
    /\ [][IF gen.pc = "emit" /\ gen'.pc = "emitted" /\ parked' = parked
          THEN AnnouncementLog' = Append(AnnouncementLog, gen'.announcement)
          ELSE AnnouncementLog' = AnnouncementLog]_vars
    /\ [](Len(AnnouncementLog) = EmitsStarted)

\* two calls have emitted, the log holds two different announcements, and a
\* scan of one of them has run to its end
C23_Witness ==
    /\ Len(AnnouncementLog) = 2
    /\ AnnouncementLog[1] # AnnouncementLog[2]
    /\ gen.pc = "returned" /\ parked.gen.pc = "returned"
    /\ AnnouncementLog[2] = gen.announcement
    /\ scan.pc = "done"

\* a step that writes the registry leaves all entries but one as they were,
\* except possibly the entries named in the set others
RegistryFramed(others) ==
    /\ \E r \in RegistryIdentifiers :
         \A id \in (RegistryIdentifiers \ others) \ {r} :
            MockRegistryGet(MockRegistry', id) = MockRegistryGet(MockRegistry, id)
    /\ (MockRegistry' # MockRegistry =>
          AnnouncementLog' = AnnouncementLog /\ gen' = gen /\ scan' = scan)
    /\ (gen.pc = "lookup" /\ gen' # gen =>
          MockRegistry' = MockRegistry /\ AnnouncementLog' = AnnouncementLog)
    /\ (scan' # scan =>
          MockRegistry' = MockRegistry /\ AnnouncementLog' = AnnouncementLog)

\* keys written under an identifier are what a read of that identifier gives
RetrievableUnder(id) ==
    MockRegistry[id] # NoMeta =>
        MockRegistryGet(MockRegistry, id).value = MockRegistry[id]

\* C24: registerKeys(id, s, v) changes the entry of id and of no other
\* identifier, and leaves the log alone; lookupKeys and scanAndRecover
\* change neither the registry nor the log; keys registered under the ENS
\* handle and the raw address are retrievable under both.
C24_RegisterChangesOnlyItsEntry ==
    /\ [][RegistryFramed({})]_vars
    /\ [](RetrievableUnder("alice.eth")
          /\ RetrievableUnder("0x1234567890123456789012345678901234567890"))

\* the part that holds: only the entry of a field name of the registered
\* objects changes with another identifier's registration
C24_FramedButFieldNames ==
    /\ [][RegistryFramed({"spendingPubKey"})]_vars
    /\ [](\A id \in RegistryIdentifiers : RetrievableUnder(id))

\* both of main's identifiers are registered and a generation for the raw
\* address has found the keys
C24_BothRegistered ==
    /\ MockRegistry["alice.eth"] # NoMeta
    /\ MockRegistry["0x1234567890123456789012345678901234567890"] # NoMeta
    /\ gen.pc = "returned"
    /\ scan.pc = "done"

\* the announcement of the call is the one derived from the keys the call
\* read in its one lookup, which are the two keys of one registration, and
\* from the call's own ephemeral key
DerivedFromOneRead(frame) ==
    /\ \E keys \in ConcKeyPairs :
          frame.recipientMetaAddress = [spendingPubKey |-> keys.spendingPubKey,
                                        viewingPubKey |-> keys.viewingPubKey]
    /\ ValidPrivateKey(keccak256(computeSharedSecret(frame.ephemeralPrivKey,
                                      frame.recipientMetaAddress.viewingPubKey)))
    /\ frame.announcement =
          GeneratedFrame(frame.recipientIdentifier, frame.recipientMetaAddress,
                         frame.ephemeralPrivKey).announcement

\* C25: however two generateStealthAddress calls and registerKeys calls for
\* the same identifier are interleaved, the announcement a call emits is the
\* one derived from the two keys of a single registration, read once, and
\* from the call's own ephemeral key; afterwards each call's announcement is
\* still made of that call's own address, ephemeral public key and view tag,
\* and every log entry is the announcement of one of the calls.
C25_NoMixing ==
    /\ [][IF gen.pc = "emit" /\ gen'.pc = "emitted"
          THEN DerivedFromOneRead(gen')
          ELSE TRUE]_vars
    /\ [](\A frame \in {gen, parked.gen} :
            frame.pc \in {"emitted", "returned"} =>
               /\ frame.announcement =
                     BuildAnnouncement(frame.stealthAddress, frame.ephemeralPubKey,
                                       frame.viewTag)
               /\ \E i \in 1..Len(AnnouncementLog) :
                     AnnouncementLog[i] = frame.announcement)
    /\ [](\A i \in 1..Len(AnnouncementLog) :
            \/ gen.pc \in {"emitted", "returned"} /\ AnnouncementLog[i] = gen.announcement
            \/ /\ parked.gen.pc \in {"emitted", "returned"}
               /\ AnnouncementLog[i] = parked.gen.announcement)

\* both calls have emitted, having read different registrations and drawn
\* different ephemeral keys, and the registry has been written since
C25_Witness ==
    /\ gen.pc = "returned" /\ parked.gen.pc = "returned"
    /\ gen.recipientMetaAddress # parked.gen.recipientMetaAddress
    /\ gen.ephemeralPrivKey # parked.gen.ephemeralPrivKey
    /\ gen.announcement # parked.gen.announcement
    /\ MockRegistry["0x1234567890123456789012345678901234567890"]
          \notin {gen.recipientMetaAddress, parked.gen.recipientMetaAddress}
    /\ Len(AnnouncementLog) = 2

\* C26: in a run of main, the generator's lookup comes after both
\* registrations and never fails with not-found; the log gets its entry only
\* once the lookup has returned and the address is derived, and the entry
\* carries that address; scanAndRecover starts only after the generator has
\* emitted and returned, on the announcement that is in the log.
C26_MainOrder ==
    /\ (gen.pc # "idle" =>
          /\ MockRegistry["alice.eth"] # NoMeta
          /\ MockRegistry["0x1234567890123456789012345678901234567890"] # NoMeta
          /\ gen.lookup # "threw"
          /\ gen.error # "Recipient not found in registry!")
    /\ (AnnouncementLog # <<>> =>
          /\ gen.lookup = "returned"
          /\ gen.stealthAddress # NoAddress
          /\ gen.pc \in {"emitted", "returned"}
          /\ AnnouncementLog = <<gen.announcement>>
          /\ gen.announcement.stealthAddress = gen.stealthAddress)
    /\ (scan.pc # "idle" =>
          /\ gen.pc = "returned"
          /\ AnnouncementLog = <<scan.announcement>>)

\* main has run to its end: keys registered under both identifiers, one
\* announcement in the log, the scan ended in SUCCESS
C26_Witness ==
    /\ MockRegistry["alice.eth"] # NoMeta
    /\ MockRegistry["0x1234567890123456789012345678901234567890"] # NoMeta
    /\ Len(AnnouncementLog) = 1
    /\ gen.pc = "returned"
    /\ scan.pc = "done"
    /\ scan.console = "SUCCESS"

====
